---- MODULE Spec2Model ----
(***************************************************************************)
(* Bindilla's HTTP gateway (bindilla/host_http_server.py): the version     *)
(* router, the per-version route tables, the request handlers and the      *)
(* response envelope, on top of Tornado's request handling.                *)
(*                                                                         *)
(* Text is a sequence of lexical items.  "/", "@", "?", "," and "%40" are  *)
(* the characters and the escape they name; every other item ("v1",        *)
(* "proxy", "a", ...) is a run of characters none of which is one of       *)
(* those, so a literal of a pattern matches item by item exactly where it  *)
(* matches character by character.                                         *)
(***************************************************************************)
EXTENDS Integers, Sequences, FiniteSets, TLC

VARIABLES pc, req, route, resp, calls, result, loop

vars == <<pc, req, route, resp, calls, result, loop>>

(* Bounds of the model. *)
MaxTail == 4
MaxHdrs == 2
MaxBody == 2

Clients == {"c1", "c2"}

(* An optional value: <<>> is Python's None, <<x>> is the value x. *)
None == <<>>
Some(x) == <<x>>

----------------------------------------------------------------------------
(* Sequences of text. *)

\* s[a..b], empty when b < a
Slice(s, a, b) == IF b < a THEN <<>> ELSE SubSeq(s, a, b)

\* does the text w occur in s at position i
OccursAt(s, w, i) ==
    /\ i >= 1
    /\ i + Len(w) - 1 <= Len(s)
    /\ \A k \in 1..Len(w) : s[i + k - 1] = w[k]

Contains(s, w) == \E i \in 1..(Len(s) + 1) : OccursAt(s, w, i)

Min(S) == CHOOSE x \in S : \A y \in S : x <= y
Max(S) == CHOOSE x \in S : \A y \in S : x >= y

----------------------------------------------------------------------------
(* Regular expressions, as Python's re.match runs them: a pattern is a     *)
(* sequence of elements, matched left to right with backtracking, and the  *)
(* first match in backtracking order is the match.  Every pattern of the   *)
(* program ends with "$" (tornado.routing.PathMatches appends it), so a    *)
(* match must consume the whole text.                                      *)
(*   Lit(t)           the item t                                           *)
(*   Opt(t)           t?          greedy                                   *)
(*   Lazy(g)          (?P<g>.*?)  or .*? when g = ""                       *)
(*   Many(min, g)     (?P<g>.+) / .*  greedy, at least min items           *)
(*   Not(x, g)        (?P<g>[^x]+)  greedy, at least one item              *)

Lit(t) == [kind |-> "lit", tok |-> t, min |-> 1, greedy |-> TRUE, group |-> ""]
Opt(t) == [kind |-> "opt", tok |-> t, min |-> 0, greedy |-> TRUE, group |-> ""]
Lazy(g) == [kind |-> "any", tok |-> "", min |-> 0, greedy |-> FALSE, group |-> g]
Many(m, g) == [kind |-> "any", tok |-> "", min |-> m, greedy |-> TRUE, group |-> g]
Not(x, g) == [kind |-> "not", tok |-> x, min |-> 1, greedy |-> TRUE, group |-> g]

Word(w) == [i \in 1..Len(w) |-> Lit(w[i])]

NoMatch == [ok |-> FALSE, groups |-> [g \in {} |-> <<>>]]

\* the length of the longest run of items from position j that the class e admits
RECURSIVE Run(_, _, _)
Run(e, s, j) ==
    IF j > Len(s) THEN 0
    ELSE IF e.kind = "not" /\ s[j] = e.tok THEN 0
    ELSE 1 + Run(e, s, j + 1)

Bind(caps, g, v) == IF g = "" THEN caps ELSE (g :> v) @@ caps

RECURSIVE MatchFrom(_, _, _, _, _), Repeat(_, _, _, _, _, _, _)
MatchFrom(re, i, s, j, caps) ==
    IF i > Len(re)
    THEN IF j = Len(s) + 1 THEN [ok |-> TRUE, groups |-> caps] ELSE NoMatch
    ELSE LET e == re[i] IN
      CASE e.kind = "lit" ->
             IF j <= Len(s) /\ s[j] = e.tok
             THEN MatchFrom(re, i + 1, s, j + 1, caps) ELSE NoMatch
        [] e.kind = "opt" ->
             LET taken == IF j <= Len(s) /\ s[j] = e.tok
                          THEN MatchFrom(re, i + 1, s, j + 1, caps) ELSE NoMatch
             IN IF taken.ok THEN taken ELSE MatchFrom(re, i + 1, s, j, caps)
        [] OTHER ->
             LET hi == Run(e, s, j)
             IN Repeat(re, i, s, j, caps, IF e.greedy THEN hi ELSE e.min, hi)

\* the repetition re[i] taking k items, then fewer (greedy) or more (lazy)
Repeat(re, i, s, j, caps, k, hi) ==
    LET e == re[i] IN
    IF k < e.min \/ k > hi THEN NoMatch
    ELSE LET m == MatchFrom(re, i + 1, s, j + k,
                            Bind(caps, e.group, Slice(s, j, j + k - 1)))
         IN IF m.ok THEN m
            ELSE Repeat(re, i, s, j, caps, IF e.greedy THEN k - 1 ELSE k + 1, hi)

\* re.match(pattern + "$", s)
Match(re, s) == MatchFrom(re, 1, s, 1, [g \in {} |-> <<>>])

----------------------------------------------------------------------------
(* The request target and the route tables of make(). *)

\* tornado: request.path, request.query = uri.partition("?")
PathOf(url) ==
    IF \E i \in 1..Len(url) : url[i] = "?"
    THEN Slice(url, 1, Min({i \in 1..Len(url) : url[i] = "?"}) - 1)
    ELSE url

\* tornado.routing._unquote_or_none, applied to every captured group
UnquoteItem(t) == IF t = "%40" THEN "@" ELSE t
Unquote(s) == [i \in 1..Len(s) |-> UnquoteItem(s[i])]

ManifestPattern(v) ==
    <<Opt("/"), Lazy("environs")>> \o Word(<<"/", v, "/", "manifest">>) \o <<Opt("/")>>

EnvironPattern(v, noun) ==
    <<Lazy("")>> \o Word(<<"/", v, "/", noun, "/">>) \o <<Many(1, "environ_id")>>

ProxyPatternSplitLast(v) ==
    <<Lazy("")>> \o Word(<<"/", v, "/", "proxy", "/">>)
       \o <<Many(1, "binder_id"), Lit("@"), Not("/", "token"), Lit("/"), Many(1, "path")>>

ProxyPattern(v) ==
    <<Lazy("")>> \o Word(<<"/", v, "/", "proxy", "/">>)
       \o <<Not("@", "binder_id"), Lit("@"), Not("/", "token"), Lit("/"), Many(1, "path")>>

v1_app ==
    << [pattern |-> ManifestPattern("v1"), handler |-> "ManifestHandler"],
       [pattern |-> EnvironPattern("v1", "environs"), handler |-> "EnvironHandler"],
       [pattern |-> ProxyPattern("v1"), handler |-> "ProxyHandler"] >>

v0_app ==
    << [pattern |-> ManifestPattern("v0"), handler |-> "ManifestHandler"],
       [pattern |-> EnvironPattern("v0", "environ"), handler |-> "EnvironHandler"],
       [pattern |-> ProxyPattern("v0"), handler |-> "ProxyHandler"] >>

index_app ==
    << [pattern |-> <<Lit("/")>>, handler |-> "IndexHandler"] >>

AppRules(app) ==
    CASE app = "v1" -> v1_app
      [] app = "v0" -> v0_app
      [] OTHER -> index_app

VersionPattern(v) == <<Lazy("")>> \o Word(<<"/", v, "/">>) \o <<Many(0, "")>>

RouterRulesV0First ==
    << [pattern |-> VersionPattern("v0"), target |-> "v0"],
       [pattern |-> VersionPattern("v1"), target |-> "v1"],
       [pattern |-> <<Lit("/")>>, target |-> "index"] >>

RouterRules ==
    << [pattern |-> VersionPattern("v1"), target |-> "v1"],
       [pattern |-> VersionPattern("v0"), target |-> "v0"],
       [pattern |-> <<Lit("/")>>, target |-> "index"] >>

\* the first rule whose pattern matches, with its match; ok is FALSE when none does
RECURSIVE FirstMatch(_, _, _)
FirstMatch(rules, path, i) ==
    IF i > Len(rules) THEN [ok |-> FALSE, rule |-> 0, groups |-> [g \in {} |-> <<>>]]
    ELSE LET m == Match(rules[i].pattern, path)
         IN IF m.ok THEN [ok |-> TRUE, rule |-> i, groups |-> m.groups]
            ELSE FirstMatch(rules, path, i + 1)

NoArgs == [g \in {} |-> <<>>]

(* RuleRouter.find_handler, then Application.find_handler of the target:   *)
(* no router rule -> Tornado's bare 404; no template of the application    *)
(* -> Tornado's ErrorHandler(404); otherwise the handler with the          *)
(* unquoted named groups as its arguments.                                 *)
Route(path) ==
    LET r == FirstMatch(RouterRules, path, 1) IN
    IF ~r.ok THEN [app |-> "none", handler |-> "none", args |-> NoArgs]
    ELSE LET app == RouterRules[r.rule].target
             rules == AppRules(app)
             t == FirstMatch(rules, path, 1)
         IN IF ~t.ok THEN [app |-> app, handler |-> "ErrorHandler", args |-> NoArgs]
            ELSE [app |-> app, handler |-> rules[t.rule].handler,
                  args |-> [g \in DOMAIN t.groups |-> Unquote(t.groups[g])]]

BaseHandlers == {"IndexHandler", "ManifestHandler", "EnvironHandler", "ProxyHandler"}

----------------------------------------------------------------------------
(* The response of a request: status, header list, written body. *)

\* str(n) of a length or a status code (tornado converts header values to text)
Digit == <<"1", "2", "3", "4", "5", "6", "7", "8", "9">>

ToStr(n) ==
    CASE n = 0 -> "0"
      [] n \in 1..9 -> Digit[n]
      [] n = 200 -> "200"
      [] n = 201 -> "201"
      [] n = 204 -> "204"
      [] n = 400 -> "400"
      [] n = 404 -> "404"
      [] n = 405 -> "405"
      [] n = 500 -> "500"
      [] n = 503 -> "503"
      [] n = 599 -> "599"
      [] OTHER -> "n"

\* RequestHandler.set_header: the one value of the name
SetHeader(hs, name, value) ==
    SelectSeq(hs, LAMBDA h : h[1] # name) \o << <<name, value>> >>

\* RequestHandler.add_header: one more value of the name
AddHeader(hs, name, value) == Append(hs, <<name, value>>)

HeaderValues(hs, name) ==
    {hs[i][2] : i \in {k \in 1..Len(hs) : hs[k][1] = name}}

\* request.headers.get('Origin', '')
OriginOf(r) == IF r.origin = None THEN "" ELSE r.origin[1]

set_default_headers(r) ==
    << <<"Server", "Bindilla / Tornado">>,
       <<"Content-Type", "application/json">>,
       <<"Access-Control-Allow-Origin", OriginOf(r)>>,
       <<"Access-Control-Allow-Credentials", "true">>,
       <<"Access-Control-Allow-Methods", "GET, POST, PUT, DELETE, OPTIONS">>,
       <<"Access-Control-Allow-Headers", "Content-Type">>,
       <<"Access-Control-Max-Age", "86400">> >>

\* RequestHandler.clear(): status 200, the default headers, nothing written
Clear(r) ==
    [status |-> 200, headers |-> set_default_headers(r), body |-> <<>>,
     finished |-> FALSE]

NoResponse == [status |-> 0, headers |-> <<>>, body |-> <<>>, finished |-> FALSE]

set_status(rs, code) == [rs EXCEPT !.status = code]
write(rs, chunk) == [rs EXCEPT !.body = @ \o chunk]

RepresentationHeaders == {"Content-Encoding", "Content-Language", "Content-Type"}

(* RequestHandler.finish(): a 204 or 304 loses its representation headers, *)
(* any other response without a Content-Length gets the length of what was *)
(* written.                                                                *)
finish(rs) ==
    [rs EXCEPT
       !.headers =
          IF rs.status \in {204, 304}
          THEN SelectSeq(rs.headers, LAMBDA h : h[1] \notin RepresentationHeaders)
          ELSE IF HeaderValues(rs.headers, "Content-Length") = {}
               THEN SetHeader(rs.headers, "Content-Length", ToStr(Len(rs.body)))
               ELSE rs.headers,
       !.finished = TRUE]

\* RequestHandler.write_error: Tornado's generic error page
ErrorPage(code) == <<"<html>", ToStr(code), "</html>">>

(* BaseHandler.write_error, as RequestHandler.send_error calls it: the     *)
(* response is cleared, a ValueError becomes a 400 with its text, anything *)
(* else Tornado's error page; send_error then finishes.                    *)
write_error(r, status_code, exc) ==
    LET rs == set_status(Clear(r), status_code) IN
    finish(IF exc.kind = "ValueError"
           THEN write(set_status(rs, 400), exc.message)
           ELSE write(rs, ErrorPage(status_code)))

(* RequestHandler._handle_request_exception: a tornado.web.HTTPError keeps *)
(* its status, every other exception (HTTPClientError is one) is a 500.    *)
HandleException(r, exc) ==
    write_error(r, IF exc.kind = "HTTPError" THEN exc.code ELSE 500, exc)

\* json.dumps(value, indent=2)
JsonDumps(value) == <<"{">> \o value \o <<"}">>

\* BaseHandler.send
send(rs, value) == write(rs, JsonDumps(value))

\* str(error) of an exception
StrError(exc) ==
    IF exc.kind = "HTTPClientError"
    THEN <<"HTTP ", ToStr(exc.code), ": ">> \o exc.message
    ELSE exc.message

IndexPage == <<"<!DOCTYPE html>", "refresh", "https://github.com/stencila/bindilla#readme">>

\* str.split(',')
RECURSIVE SplitComma(_)
SplitComma(s) ==
    LET commas == {i \in 1..Len(s) : s[i] = ","} IN
    IF commas = {} THEN <<s>>
    ELSE <<Slice(s, 1, Min(commas) - 1)>>
            \o SplitComma(Slice(s, Min(commas) + 1, Len(s)))

----------------------------------------------------------------------------
(* The Host collaborator (bindilla/host.py): what a call may return or     *)
(* raise.                                                                  *)

Returned(code, headers, body) ==
    [kind |-> "ok", code |-> code, headers |-> headers, body |-> body, message |-> <<>>]

Raised(kind, code, message) ==
    [kind |-> kind, code |-> code, headers |-> <<>>, body |-> <<>>, message |-> message]

\* HTTP statuses the upstream reports as errors, 599 when it is unreachable
FailCodes == {404, 503, 599}

HttpFailures == {Raised("HTTPClientError", code, <<"upstream says no">>) : code \in FailCodes}

OtherFailures ==
    {Raised("ValueError", 0, <<"bad value">>), Raised("Exception", 0, <<"no route to host">>)}

ManifestOutcomes == {Returned(0, <<>>, <<"manifest">>)} \cup OtherFailures

LaunchOutcomes ==
    {Returned(0, <<>>, <<"id", "x123">>)} \cup HttpFailures \cup OtherFailures

HostCall(op, method, args, body) ==
    [op |-> op, method |-> method, args |-> args, body |-> body]

----------------------------------------------------------------------------
(* The handlers' methods, as functions of the request r (and of what Host  *)
(* returned or raised) that give the finished response.                    *)

\* BaseHandler.head
head(r) == finish(set_status(Clear(r), 204))

optionsOk(r) == finish(set_status(Clear(r), 200))

\* BaseHandler.options
options(r) == finish(set_status(Clear(r), 204))

\* IndexHandler.get (Tornado finishes the response when get returns)
IndexGetResponse(r) ==
    LET rs == Clear(r) IN
    finish(write([rs EXCEPT !.headers = SetHeader(@, "Content-Type", "text/html")],
                 IndexPage))

\* ManifestHandler.get: the argument it hands to HOST.manifest
ManifestArg(environs) == IF environs # <<>> THEN Some(SplitComma(environs)) ELSE None

\* ManifestHandler.get and EnvironHandler.post once Host has answered
SendResult(r, out) ==
    IF out.kind = "ok" THEN finish(send(Clear(r), out.body))
    ELSE HandleException(r, out)

deleteNoContent(r) == finish(set_status(Clear(r), 204))

\* EnvironHandler.delete
delete(r) == finish(set_status(Clear(r), 200))

ExcludedHeadersNoConnection ==
    {"Content-Length", "Transfer-Encoding", "Content-Encoding"}

ExcludedHeaders ==
    {"Content-Length", "Transfer-Encoding", "Content-Encoding", "Connection"}

\* the for loop of ProxyHandler.proxy over response.headers.get_all()
RECURSIVE CopyHeaders(_, _)
CopyHeaders(hs, upstream) ==
    IF upstream = <<>> THEN hs
    ELSE LET h == Head(upstream) IN
         CopyHeaders(IF h[1] \notin ExcludedHeaders THEN AddHeader(hs, h[1], h[2]) ELSE hs,
                     Tail(upstream))

proxyKeepStatus(r, out) ==
    IF out.kind = "HTTPClientError"
    THEN finish(write(Clear(r), StrError(out)))
    ELSE HandleException(r, out)

\* ProxyHandler.proxy once HOST.proxy_environ has answered
proxy(r, out) ==
    IF out.kind = "HTTPClientError"
    THEN finish(write(set_status(Clear(r), out.code), StrError(out)))
    ELSE IF out.kind = "ok"
    THEN LET rs == [Clear(r) EXCEPT !.headers = CopyHeaders(@, out.headers)] IN
         finish(IF out.body # <<>>
                THEN write([rs EXCEPT !.headers =
                               SetHeader(@, "Content-Length", ToStr(Len(out.body)))],
                           out.body)
                ELSE rs)
    ELSE HandleException(r, out)

Methods == {"GET", "POST", "PUT", "DELETE", "HEAD", "OPTIONS"}

\* the methods each handler class defines besides head and options
Implements(handler) ==
    CASE handler = "IndexHandler" -> {"GET"}
      [] handler = "ManifestHandler" -> {"GET"}
      [] handler = "EnvironHandler" -> {"POST", "DELETE"}
      [] handler = "ProxyHandler" -> {"GET", "POST", "PUT"}
      [] OTHER -> {}

SuspendsNever(op) == FALSE

(* Whether the handler awaits the Host call (async def ... await), giving  *)
(* the event loop back until Host answers, or makes it as a plain call.    *)
Suspends(op) == op \in {"launch_environ", "proxy_environ"}

----------------------------------------------------------------------------
(* The state machine: each client sends one request; the event loop runs   *)
(* one handler at a time up to its next await.                             *)

NoRequest == [method |-> "", url |-> <<>>, origin |-> None, body |-> <<>>]
NoRoute == [app |-> "", handler |-> "", args |-> NoArgs]

Init ==
    /\ pc = [c \in Clients |-> "idle"]
    /\ req = [c \in Clients |-> NoRequest]
    /\ route = [c \in Clients |-> NoRoute]
    /\ resp = [c \in Clients |-> NoResponse]
    /\ calls = [c \in Clients |-> <<>>]
    /\ result = [c \in Clients |-> None]
    /\ loop = "free"

(* HTTPServer hands the request to the router, which finds its handler    *)
(* from the path (make(), RuleRouter); the handler's method runs next.     *)
Receive(c, r) ==
    /\ pc[c] = "idle"
    /\ loop = "free"
    /\ req' = [req EXCEPT ![c] = r]
    /\ route' = [route EXCEPT ![c] = Route(PathOf(r.url))]
    /\ pc' = [pc EXCEPT ![c] = "routed"]
    /\ loop' = c
    /\ UNCHANGED <<resp, calls, result>>

\* the handler of c is about to run its method
Routed(c, handlers, methods) ==
    /\ pc[c] = "routed"
    /\ loop = c
    /\ route[c].handler \in handlers
    /\ req[c].method \in methods

\* the handler finishes the response
Respond(c, rs) ==
    /\ resp' = [resp EXCEPT ![c] = rs]
    /\ pc' = [pc EXCEPT ![c] = "done"]
    /\ loop' = "free"
    /\ UNCHANGED <<req, route>>

\* the handler calls Host and waits for its answer
CallHost(c, call) ==
    /\ calls' = [calls EXCEPT ![c] = Append(@, call)]
    /\ pc' = [pc EXCEPT ![c] = call.op]
    /\ loop' = IF Suspends(call.op) THEN "free" ELSE c
    /\ UNCHANGED <<req, route, resp, result>>

\* Host answers the call of c, and the handler runs on to its end
HostAnswers(c, op, out) ==
    /\ pc[c] = op
    /\ loop = IF Suspends(op) THEN "free" ELSE c
    /\ result' = [result EXCEPT ![c] = Some(out)]
    /\ UNCHANGED calls

\* no rule of the RuleRouter matches: Tornado's bare 404
RouterNotFound(c) ==
    /\ Routed(c, {"none"}, Methods)
    /\ Respond(c, [status |-> 404, headers |-> <<>>, body |-> <<>>, finished |-> TRUE])
    /\ UNCHANGED <<calls, result>>

\* no template of the application matches: Tornado's ErrorHandler(404)
AppNotFound(c) ==
    /\ Routed(c, {"ErrorHandler"}, Methods)
    /\ Respond(c, finish([status |-> 404,
                          headers |-> << <<"Server", "TornadoServer">>,
                                         <<"Content-Type", "text/html; charset=UTF-8">> >>,
                          body |-> ErrorPage(404), finished |-> FALSE]))
    /\ UNCHANGED <<calls, result>>

HeadOrOptions(c) ==
    /\ Routed(c, BaseHandlers, {"HEAD", "OPTIONS"})
    /\ Respond(c, IF req[c].method = "HEAD" THEN head(req[c]) ELSE options(req[c]))
    /\ UNCHANGED <<calls, result>>

\* the handler class does not define the method: Tornado raises HTTPError(405)
MethodNotAllowed(c) ==
    /\ Routed(c, BaseHandlers,
              Methods \ (Implements(route[c].handler) \cup {"HEAD", "OPTIONS"}))
    /\ Respond(c, HandleException(req[c],
                                  Raised("HTTPError", 405, <<"Method Not Allowed">>)))
    /\ UNCHANGED <<calls, result>>

IndexGet(c) ==
    /\ Routed(c, {"IndexHandler"}, {"GET"})
    /\ Respond(c, IndexGetResponse(req[c]))
    /\ UNCHANGED <<calls, result>>

ManifestGet(c) ==
    /\ Routed(c, {"ManifestHandler"}, {"GET"})
    /\ CallHost(c, HostCall("manifest", "", ManifestArg(route[c].args["environs"]), None))

ManifestReturn(c, out) ==
    /\ HostAnswers(c, "manifest", out)
    /\ Respond(c, SendResult(req[c], out))

EnvironPost(c) ==
    /\ Routed(c, {"EnvironHandler"}, {"POST"})
    /\ CallHost(c, HostCall("launch_environ", "", route[c].args["environ_id"], None))

LaunchReturn(c, out) ==
    /\ HostAnswers(c, "launch_environ", out)
    /\ Respond(c, SendResult(req[c], out))

EnvironDelete(c) ==
    /\ Routed(c, {"EnvironHandler"}, {"DELETE"})
    /\ Respond(c, delete(req[c]))
    /\ UNCHANGED <<calls, result>>

\* ProxyHandler.get, post and put
ProxyCall(c) ==
    /\ Routed(c, {"ProxyHandler"}, {"GET", "POST", "PUT"})
    /\ CallHost(c, HostCall("proxy_environ", req[c].method,
                            [binder_id |-> route[c].args["binder_id"],
                             token |-> route[c].args["token"],
                             path |-> route[c].args["path"]],
                            IF req[c].method = "GET" THEN None ELSE Some(req[c].body)))

ProxyReturn(c, out) ==
    /\ HostAnswers(c, "proxy_environ", out)
    /\ Respond(c, proxy(req[c], out))

----------------------------------------------------------------------------
(* Inputs: the requests clients send and the answers Host gives. *)

\* the pieces a request target continues with
Frags == {<<"a">>, <<"@">>, <<"/">>, <<"/", "v1", "/">>}

RECURSIVE TailsOf(_)
TailsOf(n) ==
    IF n = 0 THEN {<<>>}
    ELSE LET shorter == TailsOf(n - 1)
         IN shorter \cup {t \o f : t \in shorter, f \in Frags}

\* how a request target begins
Heads ==
    { <<"/">>,
      <<"/", "v1", "/", "manifest">>,
      <<"/", "a", ",", "a", "/", "v0", "/", "manifest">>,
      <<"/", "v1", "/", "environs", "/">>,
      <<"/", "v0", "/", "environ", "/">>,
      <<"/", "v1", "/", "proxy", "/", "a">>,
      <<"/", "v0", "/", "proxy", "/", "a">>,
      <<"/", "v0", "/", "a", "/", "v1", "/", "proxy", "/", "a", "@", "a">> }

\* request targets with a query string, an escape, or two templates in one path
ExtraURLs ==
    { <<"/", "?", "a">>,
      <<"/", "v1", "/", "manifest", "?", "a">>,
      <<"/", "v0", "/", "environ", "/", "a", "?", "a">>,
      <<"/", "v1", "/", "proxy", "/", "a", "@", "a", "/", "a", "?", "a">>,
      <<"/", "v0", "/", "proxy", "/", "a", "@", "a", "/", "a", "/", "a", "?", "a", "/", "a">>,
      <<"/", "v1", "/", "proxy", "/", "a", "@", "a", "/", "%40">>,
      <<"/", "v0", "/", "proxy", "/", "%40", "@", "%40", "/", "a">>,
      <<"/", "v0", "/", "environ", "/", "%40">>,
      <<"/", "v1", "/", "proxy", "/", "a", "@", "a", "/", "a", "/", "v1", "/", "manifest">>,
      <<"/", "v1", "/", "proxy", "/", "a", "@", "a", "/", "v1", "/", "environs", "/", "a">>,
      <<"/", "v1", "/", "environs", "/", "a", "/", "v1", "/", "proxy", "/", "a", "@", "a", "/", "a">>,
      <<"/", "v0", "/", "environ", "/", "a", "/", "v0", "/", "manifest", "/">> }

URLs == {h \o t : h \in Heads, t \in TailsOf(MaxTail)} \cup ExtraURLs

Requests(methods, urls, origins, bodies) ==
    [method : methods, url : urls, origin : origins, body : bodies]

RouteRequests == Requests(Methods, URLs, {Some("https://a.example")}, {<<"b">>})

FewAnswers ==
    {Returned(200, << <<"X-Foo", "bar">> >>, <<"x">>)} \cup HttpFailures \cup OtherFailures

\* one request target for each route, and two for no route
RelayURLs ==
    { <<"/">>,
      <<"/", "a">>,
      <<"/", "v1", "/", "a">>,
      <<"/", "v1", "/", "manifest">>,
      <<"/", "a", ",", "a", "/", "v0", "/", "manifest">>,
      <<"/", "v1", "/", "environs", "/", "a">>,
      <<"/", "v0", "/", "environ", "/", "a">>,
      <<"/", "v1", "/", "proxy", "/", "a", "@", "a", "/", "a">>,
      <<"/", "v0", "/", "proxy", "/", "a", "@", "a", "/", "a">> }

Origins == {None, Some("https://a.example")}

RelayRequests == Requests(Methods, RelayURLs, Origins, {<<>>, <<"b">>})

\* the headers an upstream response may carry
HeaderPool ==
    { <<"Content-Length", "9">>,
      <<"Transfer-Encoding", "chunked">>,
      <<"Content-Encoding", "gzip">>,
      <<"Connection", "close">>,
      <<"X-Foo", "bar">>,
      <<"Access-Control-Allow-Origin", "*">> }

RECURSIVE SeqsUpTo(_, _)
SeqsUpTo(S, n) ==
    IF n = 0 THEN {<<>>}
    ELSE LET shorter == SeqsUpTo(S, n - 1)
         IN shorter \cup {Append(q, x) : q \in shorter, x \in S}

\* the statuses of an upstream response that is no error
OkCodes == {200, 201}

UpstreamResponses ==
    {Returned(code, hs, body) :
        code \in OkCodes, hs \in SeqsUpTo(HeaderPool, MaxHdrs),
        body \in SeqsUpTo({"x", "y"}, MaxBody)}

ManyAnswers == UpstreamResponses \cup HttpFailures \cup OtherFailures

ConcURLs ==
    { <<"/">>,
      <<"/", "a">>,
      <<"/", "v1", "/", "a">>,
      <<"/", "v1", "/", "manifest">>,
      <<"/", "v1", "/", "environs", "/", "a">>,
      <<"/", "v0", "/", "proxy", "/", "a", "@", "a", "/", "a">> }

ConcRequests == Requests({"GET", "POST", "DELETE", "HEAD"}, ConcURLs, {None}, {<<>>})

Step(c, requests, answers) ==
    \/ pc[c] = "idle" /\ \E r \in requests : Receive(c, r)
    \/ RouterNotFound(c)
    \/ AppNotFound(c)
    \/ HeadOrOptions(c)
    \/ MethodNotAllowed(c)
    \/ IndexGet(c)
    \/ ManifestGet(c)
    \/ EnvironPost(c)
    \/ EnvironDelete(c)
    \/ ProxyCall(c)
    \/ pc[c] = "manifest" /\ \E out \in ManifestOutcomes : ManifestReturn(c, out)
    \/ pc[c] = "launch_environ" /\ \E out \in LaunchOutcomes : LaunchReturn(c, out)
    \/ pc[c] = "proxy_environ" /\ \E out \in answers : ProxyReturn(c, out)

(* One client, every request target: the routing of a request. *)
Next == Step("c1", RouteRequests, FewAnswers)

Spec == Init /\ [][Next]_vars

(* One client, every upstream response: the relaying of Host's answer. *)
NextRelay == Step("c1", RelayRequests, ManyAnswers)

SpecRelay == Init /\ [][NextRelay]_vars

(* Two clients on the one event loop: the interleaving of requests. *)
NextConc == \E c \in Clients : Step(c, ConcRequests, FewAnswers)

SpecConc == Init /\ [][NextConc]_vars

----------------------------------------------------------------------------
(* What the claims speak of. *)

Done(c) == pc[c] = "done"

\* Host has been called for c (and may have answered)
Called(c) == pc[c] \in {"manifest", "launch_environ", "proxy_environ", "done"}

\* the Host call of c is outstanding
Outstanding(c) == pc[c] \in {"manifest", "launch_environ", "proxy_environ"}

Answer(c) == result[c][1]

Answered(c, handler, kind) ==
    /\ Done(c)
    /\ route[c].handler = handler
    /\ result[c] # None
    /\ Answer(c).kind = kind

Count(hs, h) == Cardinality({i \in 1..Len(hs) : hs[i] = h})

V1Marker == <<"/", "v1", "/">>
V0Marker == <<"/", "v0", "/">>

\* the application the fixed order v1, v0, root gives a path
ExpectedApp(path) ==
    IF Contains(path, V1Marker) THEN "v1"
    ELSE IF Contains(path, V0Marker) THEN "v0"
    ELSE IF path = <<"/">> THEN "index"
    ELSE "none"

(* C1: the router takes the first matching rule in the order v1, v0, root: *)
(* a path containing "/v1/" goes to the v1 application even when it also   *)
(* contains "/v0/", otherwise one containing "/v0/" goes to the v0         *)
(* application, otherwise the path "/" goes to the index application, and  *)
(* any other path gets a 404 with no handler run and no Host operation.    *)
C1_RouterOrder ==
    \A c \in Clients :
        pc[c] # "idle" =>
            /\ route[c].app = ExpectedApp(PathOf(req[c].url))
            /\ route[c].app = "none" =>
                  /\ route[c].handler = "none"
                  /\ calls[c] = <<>>
                  /\ Done(c) => resp[c].status = 404

C1_Witness ==
    \E c \in Clients :
        /\ Done(c)
        /\ Contains(PathOf(req[c].url), V1Marker)
        /\ Contains(PathOf(req[c].url), V0Marker)
        /\ route[c].app = "v1"

ClaimedExclusions == {"Content-Length", "Transfer-Encoding", "Content-Encoding", "Connection"}

C3_FailureMirrored ==
    \A c \in Clients :
        Answered(c, "ProxyHandler", "HTTPClientError") =>
            /\ resp[c].status = Answer(c).code
            /\ resp[c].body = <<"HTTP ", ToStr(Answer(c).code), ": ">> \o Answer(c).message
            /\ resp[c].finished
            /\ Len(calls[c]) = 1
            /\ calls[c][1].op = "proxy_environ"

C3_Witness ==
    \E c \in Clients :
        /\ Answered(c, "ProxyHandler", "HTTPClientError")
        /\ Answer(c).code = 503
        /\ resp[c].status = 503

(* C4: after a successful Host proxy call the response's status is the     *)
(* status of the upstream response.                                        *)
C4_StatusRelayed ==
    \A c \in Clients :
        Answered(c, "ProxyHandler", "ok") => resp[c].status = Answer(c).code

(* C5: when the Host launch call of a POST on a lifecycle route fails with *)
(* an upstream HTTP status s, the response has status s and the failure's  *)
(* text as its body, and launch was called once.                           *)
C5_LaunchFailureMirrored ==
    \A c \in Clients :
        Answered(c, "EnvironHandler", "HTTPClientError") =>
            /\ resp[c].status = Answer(c).code
            /\ resp[c].body = <<"HTTP ", ToStr(Answer(c).code), ": ">> \o Answer(c).message
            /\ Len(calls[c]) = 1

(* C6: on every response of the index, manifest, lifecycle and proxy       *)
(* handlers, relayed proxy responses included, Access-Control-Allow-Origin *)
(* is exactly the request's Origin, or empty without one, never "*".       *)
C6_OriginEchoed ==
    \A c \in Clients :
        (Done(c) /\ route[c].handler \in BaseHandlers) =>
            HeaderValues(resp[c].headers, "Access-Control-Allow-Origin")
                = {IF req[c].origin = None THEN "" ELSE req[c].origin[1]}

CorsHeaders ==
    {"Access-Control-Allow-Origin", "Access-Control-Allow-Credentials",
     "Access-Control-Allow-Methods", "Access-Control-Allow-Headers",
     "Access-Control-Max-Age"}

(* C7: an OPTIONS or HEAD request on any defined route (index, manifest,   *)
(* lifecycle, proxy, either version) gets status 204, an empty body and    *)
(* all five CORS headers.                                                  *)
C7_Preflight ==
    \A c \in Clients :
        (Done(c) /\ req[c].method \in {"OPTIONS", "HEAD"}
                 /\ route[c].handler \in BaseHandlers) =>
            /\ resp[c].status = 204
            /\ resp[c].body = <<>>
            /\ \A n \in CorsHeaders : HeaderValues(resp[c].headers, n) # {}

C7_Witness ==
    \E c \in Clients :
        /\ Done(c)
        /\ req[c].method = "OPTIONS"
        /\ route[c].handler = "ProxyHandler"
        /\ route[c].app = "v0"
        /\ resp[c].status = 204

\* the path is /v1/environs/<id> or /v0/environ/<id> with <id> one segment
LifecyclePath(path) ==
    /\ Len(path) > 5
    /\ \/ Slice(path, 1, 5) = <<"/", "v1", "/", "environs", "/">>
       \/ Slice(path, 1, 5) = <<"/", "v0", "/", "environ", "/">>
    /\ \A i \in 6..Len(path) : path[i] # "/"

(* C8: a DELETE on a lifecycle route gets status 200 and an empty body     *)
(* whatever the environment id, and no Host operation is called; a path    *)
(* /v1/environs/<id> or /v0/environ/<id> is such a route for every id of   *)
(* one segment.                                                            *)
C8_DeleteNoOp ==
    \A c \in Clients :
        /\ (pc[c] # "idle" /\ LifecyclePath(PathOf(req[c].url))) =>
              route[c].handler = "EnvironHandler"
        /\ (Done(c) /\ req[c].method = "DELETE" /\ route[c].handler = "EnvironHandler") =>
              /\ resp[c].status = 200
              /\ resp[c].body = <<>>
              /\ resp[c].finished
              /\ calls[c] = <<>>

C8_Witness ==
    \E c \in Clients :
        /\ Done(c)
        /\ req[c].method = "DELETE"
        /\ LifecyclePath(PathOf(req[c].url))
        /\ route[c].app = "v0"
        /\ resp[c].status = 200

ProxyMarker(v) == <<"/", v, "/", "proxy", "/">>

\* the first position from i on where s holds the item t, 0 when none does
FirstFrom(s, t, i) ==
    LET at == {k \in i..Len(s) : s[k] = t}
    IN IF at = {} THEN 0 ELSE Min(at)

(* How the text s reads as .../v<N>/proxy/<session_id>@<token>/<rest> at   *)
(* the occurrence of /v<N>/proxy/ at position i: the session id runs to    *)
(* the first "@" after the marker, the token from there to the next "/",   *)
(* the rest from there to the end.                                         *)
Reading(s, v, i) ==
    LET start == i + 5
        at == FirstFrom(s, "@", start)
        slash == IF at = 0 THEN 0 ELSE FirstFrom(s, "/", at + 1)
    IN [shaped |-> OccursAt(s, ProxyMarker(v), i) /\ at # 0 /\ slash # 0,
        binder_id |-> Slice(s, start, at - 1),
        token |-> Slice(s, at + 1, slash - 1),
        path |-> Slice(s, slash + 1, Len(s))]

Shaped(s, v) == {i \in 1..Len(s) : Reading(s, v, i).shaped}

\* a reading with a session id, a token and a rest that are not empty
WellFormed(s, v) ==
    {i \in Shaped(s, v) :
        /\ Reading(s, v, i).binder_id # <<>>
        /\ Reading(s, v, i).token # <<>>
        /\ Reading(s, v, i).path # <<>>}

ProxyArgs(rd) == [binder_id |-> rd.binder_id, token |-> rd.token, path |-> rd.path]

ProxiedWith(c, args) ==
    /\ route[c].handler = "ProxyHandler"
    /\ Len(calls[c]) = 1
    /\ calls[c][1].op = "proxy_environ"
    /\ calls[c][1].method = req[c].method
    /\ calls[c][1].args = args

ManifestEnding(path, v) ==
    \/ OccursAt(path, <<"/", v, "/", "manifest">>, Len(path) - 3)
    \/ OccursAt(path, <<"/", v, "/", "manifest", "/">>, Len(path) - 4)

\* the path holds the lifecycle template of version v
LifecycleInside(path, v) ==
    LET noun == IF v = "v1" THEN "environs" ELSE "environ"
    IN \E i \in 1..Len(path) :
          OccursAt(path, <<"/", v, "/", noun, "/">>, i) /\ i + 5 <= Len(path)

C10_AllYield ==
    \A c \in Clients : \A d \in Clients \ {c} :
        (Outstanding(c) /\ ~Done(d)) => ENABLED Step(d, ConcRequests, FewAnswers)

(* C10 as amended: the launch and proxy handlers await their Host call and *)
(* yield to the event loop while it is outstanding, so that another        *)
(* request can be dispatched and run on; the manifest handler calls Host   *)
(* synchronously and keeps the event loop until Host has answered.         *)
C10_AwaitingYield ==
    \A c \in Clients :
        /\ pc[c] \in {"launch_environ", "proxy_environ"} =>
              /\ loop # c
              /\ \A d \in Clients \ {c} :
                    ~Done(d) => ENABLED Step(d, ConcRequests, FewAnswers)
        /\ pc[c] = "manifest" =>
              /\ loop = c
              /\ \A d \in Clients \ {c} : ~ENABLED Step(d, ConcRequests, FewAnswers)

C10_Witness ==
    /\ pc["c1"] = "proxy_environ"
    /\ pc["c2"] = "launch_environ"
    /\ loop = "free"

====
